---- MODULE Spec2Model ----
(***************************************************************************)
(* Model of the interactive graph editor in src/src/scripts/drawer:        *)
(* GraphDrawer (graph.py), Popup (popup.py) and TextInput (text_input.py). *)
(* The networkx graph self.G is modelled by its node order, per-node       *)
(* attributes, adjacency lists in insertion order and edge weights.        *)
(***************************************************************************)
EXTENDS Integers, Sequences, FiniteSets, TLC

(***************************************************************************)
(* Bounds of the model.                                                    *)
(***************************************************************************)
\* add_node is not offered once the id counter has reached this value
MaxNodeId == 2
\* longest text typed into a popup in the editing session
MaxLen == 1
\* longest text typed into a popup in the popup session
MaxPopupLen == 3
\* most quit events delivered in one run
MaxQuits == 2

(***************************************************************************)
(* Program constants.                                                      *)
(***************************************************************************)
node_size == 20
edge_width == 2
width == 800
height == 600

(***************************************************************************)
(* Values: dictionary keys and labels are Python ints or strs.  A str is   *)
(* a sequence of one-character strings.                                    *)
(***************************************************************************)
IntVal(n) == [kind |-> "int", val |-> n, str |-> <<>>]
StrVal(s) == [kind |-> "str", val |-> 0, str |-> s]
\* Python None, and the absence of a key in an attribute dictionary
None == [kind |-> "none", val |-> 0, str |-> <<>>]

\* a float: mantissa m with e decimals (35 with 1 decimal is 3.5)
Float(m, e) == [m |-> m, e |-> e]
NoWeight == [m |-> -1, e |-> 0]
DefaultWeight == Float(0, 0)

\* a node without a 'pos' attribute
NoPos == <<-1, -1>>

\* the pointer positions events are drawn from: two on the canvas, the
\* second less than a node radius from the right border, and one on the
\* Directed/Undirected button, all on one line
Points == { <<250, 25>>, <<790, 25>>, <<100, 25>> }

Buttons == {1, 2, 3}

(***************************************************************************)
(* Sequence helpers.                                                       *)
(***************************************************************************)
Range(s) == { s[i] : i \in 1..Len(s) }

Without(s, x) == SelectSeq(s, LAMBDA y : y # x)

AppendNew(s, x) == IF x \in Range(s) THEN s ELSE Append(s, x)

IndexOf(s, x) == CHOOSE i \in 1..Len(s) : s[i] = x

(***************************************************************************)
(* The networkx graph.  node: the nodes in insertion order; pos, label:    *)
(* the node attributes; adj: for a Graph the neighbours, for a DiGraph the *)
(* successors, in insertion order; w: the 'weight' attribute of each       *)
(* adjacency entry.                                                        *)
(***************************************************************************)
EmptyGraph == [node |-> <<>>, pos |-> <<>>, label |-> <<>>, adj |-> <<>>, w |-> <<>>]

Nodes(G) == Range(G.node)

HasEdge(G, u, v) == u \in Nodes(G) /\ v \in Range(G.adj[u])

\* G.add_node(n, pos=p, label=l): attributes given as None are not set
AddNodeAttr(G, n, p, l) ==
    IF n \in Nodes(G)
    THEN [G EXCEPT !.pos[n] = IF p = NoPos THEN @ ELSE p,
                   !.label[n] = IF l = None THEN @ ELSE l]
    ELSE [G EXCEPT !.node = Append(@, n),
                   !.pos = (n :> p) @@ @,
                   !.label = (n :> l) @@ @,
                   !.adj = (n :> <<>>) @@ @]

\* G.add_edge(u, v, weight=wt) on a Graph or a DiGraph; wt = NoWeight adds
\* no attribute.  Missing endpoints are added as nodes without attributes.
AddEdge(G, directed, u, v, wt) ==
    LET G1 == AddNodeAttr(AddNodeAttr(G, u, NoPos, None), v, NoPos, None)
        old == IF <<u, v>> \in DOMAIN G1.w THEN G1.w[<<u, v>>] ELSE NoWeight
        new == IF wt = NoWeight THEN old ELSE wt
        G2 == [G1 EXCEPT !.adj[u] = AppendNew(@, v),
                         !.w = (<<u, v>> :> new) @@ @]
    IN  IF directed
        THEN G2
        ELSE [G2 EXCEPT !.adj[v] = AppendNew(@, u),
                        !.w = (<<v, u>> :> new) @@ @]

\* G.remove_node(n)
RemoveNode(G, n) ==
    LET rest == Nodes(G) \ {n}
    IN  [node |-> Without(G.node, n),
         pos |-> [x \in rest |-> G.pos[x]],
         label |-> [x \in rest |-> G.label[x]],
         adj |-> [x \in rest |-> Without(G.adj[x], n)],
         w |-> [e \in { d \in DOMAIN G.w : d[1] # n /\ d[2] # n } |-> G.w[e]]]

\* G.remove_edge(u, v)
RemoveEdge(G, directed, u, v) ==
    LET gone == IF directed THEN {<<u, v>>} ELSE {<<u, v>>, <<v, u>>}
    IN  [G EXCEPT !.adj = [x \in Nodes(G) |->
                              IF x = u THEN Without(G.adj[x], v)
                              ELSE IF ~directed /\ x = v THEN Without(G.adj[x], u)
                              ELSE G.adj[x]],
                  !.w = [e \in (DOMAIN G.w) \ gone |-> G.w[e]]]

RECURSIVE EdgesFrom(_, _, _)
\* G.edges(): node by node in node order, each node's adjacency in order; a
\* Graph reports an edge only from the endpoint that comes first
EdgesFrom(G, directed, i) ==
    IF i > Len(G.node) THEN <<>>
    ELSE LET n == G.node[i]
             seen == { G.node[j] : j \in 1..(i - 1) }
             mine == SelectSeq(G.adj[n], LAMBDA v : directed \/ v \notin seen)
         IN  [k \in 1..Len(mine) |-> <<n, mine[k]>>] \o EdgesFrom(G, directed, i + 1)

Edges(G, directed) == EdgesFrom(G, directed, 1)

\* save_graph: the document written, as its vertex ids and its edge entries
save_graph(H, directed) ==
    LET es == Edges(H, directed)
    IN  [directed |-> directed,
         vertices |-> [i \in 1..Len(H.node) |->
                          IF H.label[H.node[i]] = None THEN H.node[i] ELSE H.label[H.node[i]]],
         edges |-> [i \in 1..Len(es) |->
                       [source |-> es[i][1], target |-> es[i][2],
                        weight |-> IF H.w[es[i]] = NoWeight THEN DefaultWeight ELSE H.w[es[i]]]]]

\* the nodes of G with their attributes and no edge
CopyNodes(G) == [G EXCEPT !.adj = [x \in Nodes(G) |-> <<>>], !.w = <<>>]

RECURSIVE AddEdgesFrom(_, _, _, _, _)
\* add_edges_from((u, v, deepcopy(d)) for u, nbrs in G._adj.items()
\*                                     for v, d in nbrs.items())
AddEdgesFrom(H, directed, G, es, i) ==
    IF i > Len(es) THEN H
    ELSE AddEdgesFrom(AddEdge(H, directed, es[i][1], es[i][2], G.w[es[i]]),
                      directed, G, es, i + 1)

\* every adjacency entry of G, in the order of G._adj
AdjItems(G) == EdgesFrom(G, TRUE, 1)

\* G.to_directed() of a Graph
ToDirected(G) == AddEdgesFrom(CopyNodes(G), TRUE, G, AdjItems(G), 1)

\* G.to_undirected() of a DiGraph
ToUndirected(G) == AddEdgesFrom(CopyNodes(G), FALSE, G, AdjItems(G), 1)

RECURSIVE InsertOrder(_, _, _, _)
\* the order in which add_edge(u, v) for the pairs es adds adjacency
\* entries after those of acc: u to v, and v to u in a Graph; a pair that
\* is already an entry adds none
InsertOrder(acc, directed, es, i) ==
    IF i > Len(es) THEN acc
    ELSE LET e == es[i]
             a1 == AppendNew(acc, e)
             a2 == IF directed THEN a1 ELSE AppendNew(a1, <<e[2], e[1]>>)
         IN  InsertOrder(a2, directed, es, i + 1)

(***************************************************************************)
(* Hit testing.                                                            *)
(***************************************************************************)
Abs(x) == IF x < 0 THEN -x ELSE x

\* the hit box of a node at position c contains the point p
InBox(p, c) ==
    /\ c[1] - node_size <= p[1] /\ p[1] <= c[1] + node_size
    /\ c[2] - node_size <= p[2] /\ p[2] <= c[2] + node_size

RECURSIVE ScanNodes(_, _, _)
\* the loop over G.nodes() that reads each node's 'pos' and stops at the
\* first node whose box contains p; a node without 'pos' raises KeyError
ScanNodes(G, p, i) ==
    IF i > Len(G.node) THEN [res |-> "miss", node |-> None]
    ELSE IF G.pos[G.node[i]] = NoPos THEN [res |-> "error", node |-> G.node[i]]
    ELSE IF InBox(p, G.pos[G.node[i]]) THEN [res |-> "hit", node |-> G.node[i]]
    ELSE ScanNodes(G, p, i + 1)

NodeAt(G, p) == ScanNodes(G, p, 1)

\* a hit test that measures the distance to the segment: a point whose
\* foot on the line lies beyond an endpoint is not near
NearLine_Segment(point, start, end, threshold) ==
    LET dx == end[1] - start[1]
        dy == end[2] - start[2]
        nom == Abs(dy * point[1] - dx * point[2] + end[1] * start[2] - end[2] * start[1])
        px == start[1] - point[1]
        py == start[2] - point[2]
        dot == (point[1] - start[1]) * dx + (point[2] - start[2]) * dy
    IN  IF start = end
        THEN px * px + py * py < threshold * threshold
        ELSE /\ 0 <= dot /\ dot <= dx * dx + dy * dy
             /\ nom < threshold * (Abs(dx) + Abs(dy))
             /\ nom * nom < threshold * threshold * (dx * dx + dy * dy)

\* point_line_distance(point, start, end) < threshold, in exact arithmetic
NearLine(point, start, end, threshold) ==
    LET dx == end[1] - start[1]
        dy == end[2] - start[2]
        nom == Abs(dy * point[1] - dx * point[2] + end[1] * start[2] - end[2] * start[1])
        px == start[1] - point[1]
        py == start[2] - point[2]
    IN  IF start = end
        THEN px * px + py * py < threshold * threshold
        ELSE /\ nom < threshold * (Abs(dx) + Abs(dy))
             /\ nom * nom < threshold * threshold * (dx * dx + dy * dy)

RECURSIVE ScanEdges(_, _, _, _)
\* the loop over G.edges() that stops at the first edge near p
ScanEdges(G, es, p, i) ==
    IF i > Len(es) THEN [res |-> "miss", edge |-> <<None, None>>]
    ELSE IF G.pos[es[i][1]] = NoPos \/ G.pos[es[i][2]] = NoPos
         THEN [res |-> "error", edge |-> es[i]]
    ELSE IF NearLine(p, G.pos[es[i][1]], G.pos[es[i][2]], edge_width + 5)
         THEN [res |-> "hit", edge |-> es[i]]
    ELSE ScanEdges(G, es, p, i + 1)

EdgeAt(G, directed, p) == ScanEdges(G, Edges(G, directed), p, 1)

(***************************************************************************)
(* Text conversions of Python, on strs given as sequences of characters.   *)
(***************************************************************************)
DigitChars == <<"0", "1", "2", "3", "4", "5", "6", "7", "8", "9">>

IsDigit(c) == c \in Range(DigitChars)

DigitVal(c) == IndexOf(DigitChars, c) - 1

\* the superscript two (U+00B2), as one character
SuperscriptTwo == "^2"

\* characters for which str.isnumeric() holds: the decimal digits, and
\* others such as the superscript two, which int() and float() reject
NumericChars == Range(DigitChars) \cup {SuperscriptTwo}

RECURSIVE LStrip(_)
LStrip(s) == IF s # <<>> /\ Head(s) = " " THEN LStrip(Tail(s)) ELSE s

RECURSIVE RStrip(_)
RStrip(s) == IF s # <<>> /\ s[Len(s)] = " " THEN RStrip(SubSeq(s, 1, Len(s) - 1)) ELSE s

\* str.strip()
Strip(s) == RStrip(LStrip(s))

\* a normalisation that leaves the comma in place
ReplaceComma_Skip(s) == s

\* str.replace(',', '.')
ReplaceComma(s) == [i \in 1..Len(s) |-> IF s[i] = "," THEN "." ELSE s[i]]

\* str.isnumeric()
IsNumeric(s) == s # <<>> /\ \A i \in 1..Len(s) : s[i] \in NumericChars

RECURSIVE DigitsVal(_)
\* the number written by a sequence of decimal digits
DigitsVal(s) == IF s = <<>> THEN 0 ELSE 10 * DigitsVal(SubSeq(s, 1, Len(s) - 1)) + DigitVal(s[Len(s)])

\* int(s) succeeds
IntOk(s) == s # <<>> /\ \A i \in 1..Len(s) : IsDigit(s[i])

RECURSIVE Normal(_, _)
\* the float with mantissa m and e decimals, without trailing zero decimals
Normal(m, e) == IF e > 0 /\ m % 10 = 0 THEN Normal(m \div 10, e - 1) ELSE Float(m, e)

\* float(s): digits with at most one decimal point and at least one digit.
\* Signs, exponents, underscores, inf and nan are written with characters
\* the keys of this model do not type.
ParseFloat(s) ==
    LET t == Strip(s)
        dots == { i \in 1..Len(t) : t[i] = "." }
        digs == SelectSeq(t, IsDigit)
        ok == /\ \A i \in 1..Len(t) : IsDigit(t[i]) \/ t[i] = "."
              /\ Cardinality(dots) <= 1
              /\ digs # <<>>
        decimals == IF dots = {} THEN 0 ELSE Len(t) - (CHOOSE i \in dots : TRUE)
    IN  [ok |-> ok, val |-> IF ok THEN Normal(DigitsVal(digs), decimals) ELSE NoWeight]

(***************************************************************************)
(* The state of a GraphDrawer.                                             *)
(***************************************************************************)
VARIABLES
    G,               \* self.G
    is_directed,     \* self.is_directed
    node_id,         \* self.node_id
    dragging,        \* self.dragging
    edge_start_node, \* self.edge_start_node
    button_clicked,  \* self.button_clicked
    popup,           \* self.popup, with its input box
    running,         \* self.running
    pc,              \* where the program is: "startup", "loop", "exited", "crashed"
    saves,           \* the number of save_graph() calls made on quit events
    removed,         \* the nodes remove_node has removed so far
    inserted,        \* the adjacency entries of self.G in the order they were added
    last             \* the branch the most recent handler took

vars == <<G, is_directed, node_id, dragging, edge_start_node, button_clicked,
          popup, running, pc, saves, removed, inserted, last>>

\* self.popup is None
NoPopup == [kind |-> "none", node |-> None, edge |-> <<None, None>>,
            text |-> <<>>, active |-> FALSE]

\* Popup(font, text, pos, node=n): the input box starts empty and inactive
NodePopup(n) == [kind |-> "node", node |-> n, edge |-> <<None, None>>,
                 text |-> <<>>, active |-> FALSE]

\* Popup(font, text, pos, edge=e)
EdgePopup(e) == [kind |-> "edge", node |-> None, edge |-> e,
                 text |-> <<>>, active |-> FALSE]

\* GraphDrawer.__init__
InitState ==
    /\ G = EmptyGraph
    /\ is_directed = FALSE
    /\ node_id = 0
    /\ dragging = None
    /\ edge_start_node = None
    /\ button_clicked = FALSE
    /\ popup = NoPopup
    /\ running = TRUE
    /\ saves = 0
    /\ removed = {}
    /\ inserted = <<>>
    /\ last = "init"

\* an exception leaves the handler and ends run()
Crash(tag) == pc' = "crashed" /\ last' = tag

\* the Rect(button_pos, button_size) of a button contains pos
InRect(pos, left, top, w, h) ==
    /\ left <= pos[1] /\ pos[1] < left + w
    /\ top <= pos[2] /\ pos[2] < top + h

OnSaveButton(pos) == InRect(pos, 10, 10, 60, 30)

OnToggleButton(pos) == InRect(pos, 80, 10, 100, 30)

\* toggle_graph_type
toggle_graph_type ==
    /\ is_directed' = ~is_directed
    /\ G' = IF ~is_directed THEN ToDirected(G) ELSE ToUndirected(G)
    /\ last' = "toggle"
    /\ UNCHANGED <<node_id, dragging, edge_start_node, button_clicked, popup,
                   running, pc, saves, removed>>

\* delete_edge(pos)
delete_edge(pos) ==
    LET found == EdgeAt(G, is_directed, pos)
    IN  /\ UNCHANGED <<is_directed, node_id, dragging, edge_start_node,
                       button_clicked, popup, running, saves, removed>>
        /\ IF found.res = "error"
           THEN Crash("KeyError") /\ UNCHANGED G
           ELSE /\ pc' = pc
                /\ IF found.res = "hit"
                   THEN /\ G' = RemoveEdge(G, is_directed, found.edge[1], found.edge[2])
                        /\ last' = "delete_edge"
                   ELSE UNCHANGED G /\ last' = "delete_edge_miss"

\* add_node(pos)
add_node(pos) ==
    /\ node_id < MaxNodeId
    /\ node_id' = node_id + 1
    /\ G' = AddNodeAttr(G, IntVal(node_id + 1), pos, None)
    /\ last' = "add_node"
    /\ UNCHANGED <<is_directed, dragging, edge_start_node, button_clicked, popup,
                   running, pc, saves, removed>>

\* a link gesture that orders the new edge from the second node to the first
link_press_Reversed(node) ==
    IF edge_start_node = None
    THEN [graph |-> G, start |-> node, tag |-> "link_start"]
    ELSE IF edge_start_node # node
    THEN [graph |-> AddEdge(G, is_directed, node, edge_start_node, NoWeight),
          start |-> None, tag |-> "link_edge"]
    ELSE [graph |-> G, start |-> None, tag |-> "link_same"]

\* a link gesture without the guard against pressing the same node twice
link_press_NoSelfGuard(node) ==
    IF edge_start_node = None
    THEN [graph |-> G, start |-> node, tag |-> "link_start"]
    ELSE [graph |-> AddEdge(G, is_directed, edge_start_node, node, NoWeight),
          start |-> None, tag |-> "link_edge"]

\* the branch of handle_graph_interaction for button 3 on a node: what it
\* leaves in self.G and self.edge_start_node
link_press(node) ==
    IF edge_start_node = None
    THEN [graph |-> G, start |-> node, tag |-> "link_start"]
    ELSE IF edge_start_node # node
    THEN [graph |-> AddEdge(G, is_directed, edge_start_node, node, NoWeight),
          start |-> None, tag |-> "link_edge"]
    ELSE [graph |-> G, start |-> None, tag |-> "link_same"]

\* handle_graph_interaction(event) for a MOUSEBUTTONDOWN event
handle_graph_interaction(button, pos) ==
    LET found == NodeAt(G, pos)
        node == found.node
    IN  CASE found.res = "error" ->
               /\ Crash("KeyError")
               /\ UNCHANGED <<G, is_directed, node_id, dragging, edge_start_node,
                              button_clicked, popup, running, saves, removed>>
          [] found.res = "hit" /\ button = 1 ->
               /\ edge_start_node' = None
               /\ dragging' = node
               /\ last' = "drag_start"
               /\ UNCHANGED <<G, is_directed, node_id, button_clicked, popup,
                              running, pc, saves, removed>>
          [] found.res = "hit" /\ button = 3 ->
               /\ G' = link_press(node).graph
               /\ edge_start_node' = link_press(node).start
               /\ last' = link_press(node).tag
               /\ UNCHANGED <<is_directed, node_id, dragging, button_clicked, popup,
                              running, pc, saves, removed>>
          [] found.res = "hit" /\ button = 2 ->
               /\ G' = RemoveNode(G, node)
               /\ dragging' = None
               /\ removed' = removed \cup {node}
               /\ last' = "remove_node"
               /\ UNCHANGED <<is_directed, node_id, edge_start_node, button_clicked,
                              popup, running, pc, saves>>
          [] found.res = "miss" /\ button = 1 -> add_node(pos)
          [] found.res = "miss" /\ button = 2 -> delete_edge(pos)
          [] found.res = "miss" /\ button = 3 ->
               /\ last' = "press_miss"
               /\ UNCHANGED <<G, is_directed, node_id, dragging, edge_start_node,
                              button_clicked, popup, running, pc, saves, removed>>

\* handle_mouse_down(event), called with self.popup None
handle_mouse_down(button, pos) ==
    IF OnSaveButton(pos)
    THEN /\ button_clicked' = TRUE
         /\ last' = "save"
         /\ UNCHANGED <<G, is_directed, node_id, dragging, edge_start_node, popup,
                        running, pc, saves, removed>>
    ELSE IF OnToggleButton(pos)
    THEN toggle_graph_type
    ELSE handle_graph_interaction(button, pos)

\* handle_mouse_up(event)
handle_mouse_up(button) ==
    /\ IF button = 1
       THEN button_clicked' = FALSE /\ dragging' = None
       ELSE UNCHANGED <<button_clicked, dragging>>
    /\ last' = "mouse_up"
    /\ UNCHANGED <<G, is_directed, node_id, edge_start_node, popup, running, pc,
                   saves, removed>>

\* handle_mouse_motion(event)
handle_mouse_motion(pos) ==
    /\ IF dragging # None
       THEN IF dragging \in Nodes(G)
            THEN G' = [G EXCEPT !.pos[dragging] = pos] /\ pc' = pc /\ last' = "drag"
            ELSE UNCHANGED G /\ Crash("KeyError")
       ELSE UNCHANGED <<G, pc>> /\ last' = "motion"
    /\ UNCHANGED <<is_directed, node_id, dragging, edge_start_node, button_clicked,
                   popup, running, saves, removed>>

\* handle_key_up(event), with mouse_pos the value of pygame.mouse.get_pos()
handle_key_up(key, mouse_pos) ==
    LET found == NodeAt(G, mouse_pos)
        edge == EdgeAt(G, is_directed, mouse_pos)
        \* the loop variable pos after the loop over the nodes
        pos == G.pos[G.node[Len(G.node)]]
    IN  CASE key = "K_e" ->
               /\ IF found.res = "error"
                  THEN popup' = NoPopup /\ Crash("KeyError")
                  ELSE /\ pc' = pc
                       /\ IF found.res = "hit"
                          THEN popup' = NodePopup(found.node) /\ last' = "popup_node"
                          ELSE IF edge.res = "hit"
                          THEN popup' = EdgePopup(edge.edge) /\ last' = "popup_edge"
                          ELSE popup' = NoPopup /\ last' = "key_miss"
               /\ UNCHANGED <<G, is_directed, node_id, dragging, edge_start_node,
                              button_clicked, running, saves, removed>>
          [] key = "K_BACKSPACE" /\ found.res = "error" ->
               /\ Crash("KeyError")
               /\ UNCHANGED <<G, is_directed, node_id, dragging, edge_start_node,
                              button_clicked, popup, running, saves, removed>>
          [] key = "K_BACKSPACE" /\ found.res = "hit" ->
               /\ G' = RemoveNode(G, found.node)
               /\ dragging' = None
               /\ removed' = removed \cup {found.node}
               /\ last' = "remove_node"
               /\ UNCHANGED <<is_directed, node_id, edge_start_node, button_clicked,
                              popup, running, pc, saves>>
          [] key = "K_BACKSPACE" /\ found.res = "miss" ->
               IF G.node = <<>>
               THEN /\ Crash("UnboundLocalError")
                    /\ UNCHANGED <<G, is_directed, node_id, dragging, edge_start_node,
                                   button_clicked, popup, running, saves, removed>>
               ELSE delete_edge(pos)
          [] key \notin {"K_e", "K_BACKSPACE"} ->
               /\ last' = "key_miss"
               /\ UNCHANGED <<G, is_directed, node_id, dragging, edge_start_node,
                              button_clicked, popup, running, pc, saves, removed>>

(***************************************************************************)
(* Events.  A key event carries its key and its unicode text; a mouse      *)
(* button event its button and position.                                   *)
(***************************************************************************)
Event(type, button, pos, key, unicode) ==
    [type |-> type, button |-> button, pos |-> pos, key |-> key, unicode |-> unicode]

\* an input box whose backspace key is typed like any other key
TextInput_handle_event_NoErase(box, event, on_input) ==
    LET b1 == IF event.type = "MOUSEBUTTONDOWN" THEN [box EXCEPT !.active = on_input] ELSE box
    IN  IF event.type = "KEYUP" /\ b1.active
        THEN IF event.key = "K_RETURN"
             THEN [box |-> b1, returned |-> TRUE]
             ELSE [box |-> [b1 EXCEPT !.text = Append(@, event.unicode)], returned |-> FALSE]
        ELSE [box |-> b1, returned |-> FALSE]

\* TextInput.handle_event(event): the new input box and the returned text
\* (None unless an active box sees K_RETURN).  on_input: the box's rect
\* contains event.pos.
TextInput_handle_event(box, event, on_input) ==
    LET b1 == IF event.type = "MOUSEBUTTONDOWN" THEN [box EXCEPT !.active = on_input] ELSE box
    IN  IF event.type = "KEYUP" /\ b1.active
        THEN IF event.key = "K_RETURN"
             THEN [box |-> b1, returned |-> TRUE]
             ELSE IF event.key = "K_BACKSPACE"
             THEN [box |-> [b1 EXCEPT !.text = SubSeq(@, 1, Len(@) - 1)], returned |-> FALSE]
             ELSE [box |-> [b1 EXCEPT !.text = Append(@, event.unicode)], returned |-> FALSE]
        ELSE [box |-> b1, returned |-> FALSE]

\* Popup.handle_event(event, graph): what it leaves behind.  stay: the
\* value returned; raised: an exception left the method instead.
Popup_handle_event(event, on_input) ==
    LET inp == TextInput_handle_event(popup, event, on_input)
        box == inp.box
        commit == event.type = "KEYUP" /\ event.key = "K_RETURN"
        filled == inp.returned /\ Strip(box.text) # <<>>
        weight == ParseFloat(ReplaceComma(box.text))
        element == Strip(box.text)
        same == [stay |-> ~commit, raised |-> FALSE, box |-> box, graph |-> G, tag |-> "popup_input"]
    IN  IF ~commit THEN same
        ELSE IF ~filled THEN [same EXCEPT !.tag = "commit_nothing"]
        ELSE IF popup.kind = "edge"
        THEN IF weight.ok
             THEN [same EXCEPT !.box.text = <<>>, !.tag = "commit_weight",
                               !.graph.w = [e \in DOMAIN G.w |->
                                   IF e = popup.edge \/ (~is_directed /\ e = <<popup.edge[2], popup.edge[1]>>)
                                   THEN weight.val ELSE G.w[e]]]
             ELSE [same EXCEPT !.box.text = <<>>, !.tag = "commit_invalid"]
        ELSE IF IsNumeric(element)
        THEN IF IntOk(element)
             THEN [same EXCEPT !.graph.label[popup.node] = IntVal(DigitsVal(element)),
                               !.tag = "commit_label"]
             ELSE [same EXCEPT !.raised = TRUE, !.tag = "ValueError"]
        ELSE [same EXCEPT !.graph.label[popup.node] = StrVal(element), !.tag = "commit_label"]

\* a popup routing that keeps the popup open whatever the pointer position
handle_event_popup_KeepOpen(event, in_popup, on_input) ==
    LET out == Popup_handle_event(event, on_input)
    IN  /\ IF in_popup
           THEN /\ G' = out.graph
                /\ IF out.raised
                   THEN popup' = out.box /\ Crash(out.tag)
                   ELSE /\ popup' = IF out.stay THEN out.box ELSE NoPopup
                        /\ pc' = pc
                        /\ last' = out.tag
           ELSE /\ popup' = popup
                /\ last' = "popup_input"
                /\ UNCHANGED <<G, pc>>
        /\ UNCHANGED <<is_directed, node_id, dragging, edge_start_node,
                       button_clicked, running, saves, removed>>

\* handle_event(event) with a popup open.  in_popup: the popup's
\* background rect contains pygame.mouse.get_pos().
handle_event_popup(event, in_popup, on_input) ==
    LET out == Popup_handle_event(event, on_input)
    IN  /\ IF in_popup
           THEN /\ G' = out.graph
                /\ IF out.raised
                   THEN popup' = out.box /\ Crash(out.tag)
                   ELSE /\ popup' = IF out.stay THEN out.box ELSE NoPopup
                        /\ pc' = pc
                        /\ last' = out.tag
           ELSE /\ popup' = IF event.type # "MOUSEMOTION" THEN NoPopup ELSE popup
                /\ last' = IF event.type # "MOUSEMOTION" THEN "dismiss" ELSE "popup_input"
                /\ UNCHANGED <<G, pc>>
        /\ UNCHANGED <<is_directed, node_id, dragging, edge_start_node,
                       button_clicked, running, saves, removed>>

\* a dispatch that hands events to the editor even while a popup is open
handle_event_Unrouted(event, mouse_pos, in_popup, on_input) ==
    CASE event.type = "MOUSEBUTTONDOWN" -> handle_mouse_down(event.button, event.pos)
      [] event.type = "MOUSEBUTTONUP" -> handle_mouse_up(event.button)
      [] event.type = "MOUSEMOTION" -> handle_mouse_motion(event.pos)
      [] event.type = "KEYUP" -> handle_key_up(event.key, mouse_pos)
      [] OTHER -> /\ last' = "ignored"
                  /\ UNCHANGED <<G, is_directed, node_id, dragging, edge_start_node,
                                 button_clicked, popup, running, pc, saves, removed>>

\* handle_event(event).  mouse_pos, in_popup: pygame.mouse.get_pos() and
\* whether the popup contains it.
handle_event(event, mouse_pos, in_popup, on_input) ==
    IF popup # NoPopup
    THEN handle_event_popup(event, in_popup, on_input)
    ELSE CASE event.type = "MOUSEBUTTONDOWN" -> handle_mouse_down(event.button, event.pos)
           [] event.type = "MOUSEBUTTONUP" -> handle_mouse_up(event.button)
           [] event.type = "MOUSEMOTION" -> handle_mouse_motion(event.pos)
           [] event.type = "KEYUP" -> handle_key_up(event.key, mouse_pos)
           [] OTHER -> /\ last' = "ignored"
                       /\ UNCHANGED <<G, is_directed, node_id, dragging, edge_start_node,
                                      button_clicked, popup, running, pc, saves, removed>>

(***************************************************************************)
(* run(): each event of a drain is handled in turn; a frame is drawn after *)
(* the drain, and the loop ends after the frame once running is False.     *)
(***************************************************************************)
Key(key, unicode) == [key |-> key, unicode |-> unicode]

\* the keys released in the editing session
EditKeys == { Key("K_RETURN", "CR"), Key("K_BACKSPACE", "BS"), Key("K_e", "e"),
              Key("K_2", "2") }

\* the characters typed into a popup in the editing session
EditChars == {"2"}

\* an event the model delivers: only the characters of chars are typed
\* into an active input box, and at most max_len of them
Offered(event, chars, max_len) ==
    \/ popup = NoPopup
    \/ event.type # "KEYUP"
    \/ event.key \in {"K_RETURN", "K_BACKSPACE"}
    \/ ~popup.active
    \/ event.unicode \in chars /\ Len(popup.text) < max_len

\* the positions and the answers of collidepoint that make a difference:
\* with a popup open the handlers read no position, without one they ask
\* no popup
PosInputs == IF popup = NoPopup THEN Points ELSE {NoPos}
HitInputs == IF popup = NoPopup THEN {FALSE} ELSE BOOLEAN
ButtonInputs == IF popup = NoPopup THEN Buttons ELSE {1}

\* the adjacency entries of self.G after a handler has run, in the order
\* they were added: to_directed and to_undirected fill a new graph in the
\* order of the old adjacency, remove_node and remove_edge delete entries,
\* add_edge appends the entries of the new edge
Track ==
    IF is_directed' # is_directed
    THEN InsertOrder(<<>>, is_directed', AdjItems(G), 1)
    ELSE LET kept == SelectSeq(inserted, LAMBDA e : e \in DOMAIN G'.w)
             new == (DOMAIN G'.w) \ (DOMAIN G.w)
             first == IF \E e \in new : e[1] = edge_start_node
                      THEN CHOOSE e \in new : e[1] = edge_start_node
                      ELSE CHOOSE e \in new : TRUE
         IN  IF new = {} THEN kept ELSE InsertOrder(kept, is_directed, <<first>>, 1)

MouseDown ==
    /\ pc = "loop"
    /\ \E button \in ButtonInputs, pos \in PosInputs, in_popup \in HitInputs, on_input \in HitInputs :
          /\ in_popup \/ ~on_input
          /\ handle_event(Event("MOUSEBUTTONDOWN", button, pos, "", ""), pos, in_popup, on_input)
    /\ inserted' = Track

MouseUp ==
    /\ pc = "loop"
    /\ \E button \in ButtonInputs, in_popup \in HitInputs :
          handle_event(Event("MOUSEBUTTONUP", button, NoPos, "", ""), NoPos, in_popup, FALSE)
    /\ inserted' = Track

MouseMotion ==
    /\ pc = "loop"
    /\ \E pos \in PosInputs, in_popup \in HitInputs :
          handle_event(Event("MOUSEMOTION", 0, pos, "", ""), pos, in_popup, FALSE)
    /\ inserted' = Track

KeyUpFrom(keys, chars, max_len) ==
    /\ pc = "loop"
    /\ \E k \in keys, mouse_pos \in PosInputs, in_popup \in HitInputs :
          LET event == Event("KEYUP", 0, NoPos, k.key, k.unicode)
          IN  /\ Offered(event, chars, max_len)
              /\ handle_event(event, mouse_pos, in_popup, FALSE)
    /\ inserted' = Track

KeyUp == KeyUpFrom(EditKeys, EditChars, MaxLen)

\* an event of any other type, such as KEYDOWN
OtherEvent ==
    /\ pc = "loop"
    /\ \E in_popup \in HitInputs :
          handle_event(Event("KEYDOWN", 0, NoPos, "", ""), NoPos, in_popup, FALSE)
    /\ inserted' = Track

\* a QUIT event: save_graph() and self.running = False
Quit ==
    /\ pc = "loop"
    /\ saves < MaxQuits
    /\ saves' = saves + 1
    /\ running' = FALSE
    /\ last' = "quit"
    /\ UNCHANGED <<G, is_directed, node_id, dragging, edge_start_node, button_clicked,
                   popup, pc, removed, inserted>>

RECURSIVE DrawNodes(_, _)
\* the loop of draw_graph over the nodes: each position is kept below the
\* right and bottom borders; a node without 'pos' raises KeyError
DrawNodes(H, i) ==
    IF i > Len(H.node) THEN [graph |-> H, raised |-> FALSE]
    ELSE IF H.pos[H.node[i]] = NoPos THEN [graph |-> H, raised |-> TRUE]
    ELSE LET p == H.pos[H.node[i]]
             x == IF width - node_size < p[1] THEN width - node_size ELSE p[1]
             y == IF height - node_size < p[2] THEN height - node_size ELSE p[2]
         IN  DrawNodes([H EXCEPT !.pos[H.node[i]] = <<x, y>>], i + 1)

\* the end of a drain: draw_graph, then the loop condition
Frame ==
    /\ pc = "loop"
    /\ LET drawn == DrawNodes(G, 1)
       IN  /\ G' = drawn.graph
           /\ IF drawn.raised
              THEN Crash("KeyError")
              ELSE /\ pc' = IF running THEN "loop" ELSE "exited"
                   /\ last' = IF running THEN last ELSE "exit"
    /\ UNCHANGED <<is_directed, node_id, dragging, edge_start_node, button_clicked,
                   popup, running, saves, removed, inserted>>

(***************************************************************************)
(* import_graph.  A document is the content of the file: file tells        *)
(* whether it opens and parses; a missing key is has_vertices or has_edges *)
(* being FALSE, an id, source or target of None, a weight of NoWeight.     *)
(***************************************************************************)
Doc(file, directed, has_vertices, vertices, has_edges, edges) ==
    [file |-> file, directed |-> directed, has_vertices |-> has_vertices,
     vertices |-> vertices, has_edges |-> has_edges, edges |-> edges]

DocEdge(source, target, weight) == [source |-> source, target |-> target, weight |-> weight]

\* the documents imported at startup
ImportDocs ==
    { Doc("missing", FALSE, FALSE, <<>>, FALSE, <<>>),
      Doc("malformed", FALSE, FALSE, <<>>, FALSE, <<>>),
      Doc("ok", TRUE, FALSE, <<>>, FALSE, <<>>),
      Doc("ok", FALSE, TRUE, <<IntVal(1), None>>, TRUE, <<>>),
      Doc("ok", FALSE, TRUE, <<IntVal(1), IntVal(2)>>, FALSE, <<>>),
      Doc("ok", FALSE, TRUE, <<IntVal(1), IntVal(2)>>, TRUE, <<DocEdge(IntVal(1), None, NoWeight)>>),
      Doc("ok", FALSE, TRUE, <<IntVal(1)>>, TRUE, <<>>),
      Doc("ok", FALSE, TRUE, <<IntVal(1), IntVal(2)>>, TRUE, <<DocEdge(IntVal(1), IntVal(2), NoWeight)>>),
      Doc("ok", TRUE, TRUE, <<IntVal(1), IntVal(2)>>, TRUE, <<DocEdge(IntVal(2), IntVal(1), Float(35, 1))>>) }

RECURSIVE ImportVertices(_, _, _)
\* for vertex in data['vertices']: self.G.add_node(vertex['id'])
ImportVertices(H, vs, i) ==
    IF i > Len(vs) THEN [graph |-> H, raised |-> FALSE]
    ELSE IF vs[i] = None THEN [graph |-> H, raised |-> TRUE]
    ELSE ImportVertices(AddNodeAttr(H, vs[i], NoPos, None), vs, i + 1)

RECURSIVE ImportPairs(_, _)
\* the (source, target) pairs the loop over data['edges'] passes to add_edge
ImportPairs(es, i) ==
    IF i > Len(es) \/ es[i].source = None \/ es[i].target = None THEN <<>>
    ELSE <<<<es[i].source, es[i].target>>>> \o ImportPairs(es, i + 1)

RECURSIVE ImportEdges_NoWeight(_, _, _, _)
\* an edges loop that does not read the weight of an entry
ImportEdges_NoWeight(H, directed, es, i) ==
    IF i > Len(es) THEN [graph |-> H, raised |-> FALSE]
    ELSE IF es[i].source = None \/ es[i].target = None THEN [graph |-> H, raised |-> TRUE]
    ELSE ImportEdges_NoWeight(AddEdge(H, directed, es[i].source, es[i].target, DefaultWeight),
                              directed, es, i + 1)

RECURSIVE ImportEdges(_, _, _, _)
\* for edge in data['edges']: self.G.add_edge(source, target, weight=weight)
ImportEdges(H, directed, es, i) ==
    IF i > Len(es) THEN [graph |-> H, raised |-> FALSE]
    ELSE IF es[i].source = None \/ es[i].target = None THEN [graph |-> H, raised |-> TRUE]
    ELSE ImportEdges(AddEdge(H, directed, es[i].source, es[i].target,
                             IF es[i].weight = NoWeight THEN DefaultWeight ELSE es[i].weight),
                     directed, es, i + 1)

\* the layout of nx.spring_layout scaled to the screen.  The model draws
\* the layout of two or more nodes from those that place the nodes at
\* evenly spaced, pairwise different coordinates on each axis, in node
\* order or in reverse.  The layout of no node is empty, so max() raises;
\* the layout of one node is one point, so both scales divide by zero and
\* int() of the resulting nan raises.
ImportLayout(H, flip_x, flip_y) ==
    LET n == Len(H.node)
        rank(i, flip) == IF flip THEN n - i ELSE i - 1
        scaled(r, extent) == (r * (extent - 2 * node_size)) \div (n - 1) + node_size
    IN  IF n < 2 THEN [graph |-> H, raised |-> TRUE]
        ELSE [graph |-> [H EXCEPT !.pos = [x \in Nodes(H) |->
                            <<scaled(rank(IndexOf(H.node, x), flip_x), width),
                              scaled(rank(IndexOf(H.node, x), flip_y), height)>>]],
              raised |-> FALSE]

\* import_graph(filename): what it leaves in self.G and self.is_directed
import_graph(doc, flip_x, flip_y) ==
    LET vs == ImportVertices(EmptyGraph, doc.vertices, 1)
        es == ImportEdges(vs.graph, doc.directed, doc.edges, 1)
        lay == ImportLayout(es.graph, flip_x, flip_y)
        order == InsertOrder(<<>>, doc.directed, ImportPairs(doc.edges, 1), 1)
    IN  IF doc.file # "ok"
        THEN [graph |-> G, directed |-> is_directed, ok |-> FALSE, order |-> inserted]
        ELSE IF ~doc.has_vertices
        THEN [graph |-> EmptyGraph, directed |-> doc.directed, ok |-> FALSE, order |-> <<>>]
        ELSE IF vs.raised \/ ~doc.has_edges
        THEN [graph |-> vs.graph, directed |-> doc.directed, ok |-> FALSE, order |-> <<>>]
        ELSE IF es.raised
        THEN [graph |-> es.graph, directed |-> doc.directed, ok |-> FALSE, order |-> order]
        ELSE [graph |-> lay.graph, directed |-> doc.directed, ok |-> ~lay.raised, order |-> order]

\* the call of import_graph before run()
Import ==
    /\ pc = "startup"
    /\ \E doc \in ImportDocs, flip_x \in BOOLEAN, flip_y \in BOOLEAN :
          LET out == import_graph(doc, flip_x, flip_y)
          IN  /\ G' = out.graph
              /\ is_directed' = out.directed
              /\ inserted' = out.order
              /\ last' = IF out.ok THEN "import" ELSE "import_failed"
    /\ UNCHANGED <<node_id, dragging, edge_start_node, button_clicked, popup, running,
                   pc, saves, removed>>

\* run() is entered
StartRun ==
    /\ pc = "startup"
    /\ pc' = "loop"
    /\ UNCHANGED <<G, is_directed, node_id, dragging, edge_start_node, button_clicked,
                   popup, running, saves, removed, inserted, last>>

(***************************************************************************)
(* Specifications.                                                         *)
(***************************************************************************)
\* An editing session: run() on a new GraphDrawer, up to the first quit
\* event.  The handlers do not read self.running, so the events that
\* follow a quit event in its drain are handled as in this session.
Init == InitState /\ pc = "loop"

Next == MouseDown \/ MouseUp \/ MouseMotion \/ KeyUp \/ OtherEvent \/ Frame

Spec == Init /\ [][Next]_vars

\* The whole run, with its quit events and the pointer events that come
\* before, between and after them in a drain; no popup is opened.
NextRun == MouseDown \/ MouseUp \/ MouseMotion \/ Frame \/ Quit

SpecRun == Init /\ [][NextRun]_vars

\* A session that imports documents before run() is entered.
InitStartup == InitState /\ pc = "startup"

NextImport == Import \/ StartRun \/ MouseDown \/ MouseUp \/ MouseMotion \/ Frame

SpecImport == InitStartup /\ [][NextImport]_vars

\* A popup session: a popup has been opened on node 1 or on the edge
\* between nodes 1 and 2 of a graph drawn by two presses of button 1 and a
\* link gesture, and events arrive until the popup closes.
PopupKeys == { Key("K_RETURN", "CR"), Key("K_BACKSPACE", "BS"), Key("K_3", "3"),
               Key("K_5", "5"), Key("K_COMMA", ","), Key("K_SPACE", " "),
               Key("K_a", "a"), Key("K_POWER", SuperscriptTwo) }

PopupChars == { k.unicode : k \in PopupKeys }

PopupGraph ==
    AddEdge(AddNodeAttr(AddNodeAttr(EmptyGraph, IntVal(1), <<250, 25>>, None),
                        IntVal(2), <<350, 25>>, None),
            FALSE, IntVal(1), IntVal(2), NoWeight)

InitPopup ==
    /\ dragging = None
    /\ edge_start_node = None
    /\ button_clicked = FALSE
    /\ running = TRUE
    /\ saves = 0
    /\ removed = {}
    /\ inserted = AdjItems(PopupGraph)
    /\ pc = "loop"
    /\ \E directed \in BOOLEAN, opened \in {NodePopup(IntVal(1)), EdgePopup(<<IntVal(1), IntVal(2)>>)} :
          /\ G = IF directed THEN ToDirected(PopupGraph) ELSE PopupGraph
          /\ is_directed = directed
          /\ node_id = 2
          /\ popup = opened
          /\ last = IF opened.kind = "node" THEN "popup_node" ELSE "popup_edge"

PopupMouseDown == popup # NoPopup /\ MouseDown

PopupMouseUp == popup # NoPopup /\ MouseUp

PopupMouseMotion == popup # NoPopup /\ MouseMotion

PopupKeyUp == popup # NoPopup /\ KeyUpFrom(PopupKeys, PopupChars, MaxPopupLen)

PopupOtherEvent == popup # NoPopup /\ OtherEvent

NextPopup == PopupMouseDown \/ PopupMouseUp \/ PopupMouseMotion \/ PopupKeyUp \/ PopupOtherEvent

SpecPopup == InitPopup /\ [][NextPopup]_vars

\* A session whose graph is saved and imported again: save_graph() and
\* import_graph() share the default file tmp/importable.json, so the
\* document a quit event writes is the one a new GraphDrawer imports.  The
\* session draws, links, removes, toggles and edits labels and weights;
\* positions, which the document does not carry, are left as created.
RoundTripKeys == EditKeys \cup { Key("K_a", "a") }

RoundTripChars == EditChars \cup {"a"}

RoundTripKeyUp == KeyUpFrom(RoundTripKeys, RoundTripChars, MaxLen)

\* the document save_graph writes, as json.load reads it
SavedDoc(H, directed) ==
    LET data == save_graph(H, directed)
    IN  Doc("ok", data.directed, TRUE, data.vertices, TRUE,
            [i \in 1..Len(data.edges) |->
                DocEdge(data.edges[i].source, data.edges[i].target, data.edges[i].weight)])

\* save_graph() on the quit event, then import_graph() in a new GraphDrawer
Reimport ==
    /\ pc = "loop"
    /\ \E flip_x \in BOOLEAN, flip_y \in BOOLEAN :
          LET out == import_graph(SavedDoc(G, is_directed), flip_x, flip_y)
          IN  /\ G' = out.graph
              /\ is_directed' = out.directed
              /\ inserted' = out.order
              /\ last' = IF out.ok THEN "import" ELSE "import_failed"
    /\ pc' = "startup"
    /\ node_id' = 0
    /\ dragging' = None
    /\ edge_start_node' = None
    /\ button_clicked' = FALSE
    /\ popup' = NoPopup
    /\ running' = TRUE
    /\ saves' = 0
    /\ removed' = {}

NextRoundTrip == MouseDown \/ RoundTripKeyUp \/ Reimport

SpecRoundTrip == Init /\ [][NextRoundTrip]_vars

\* A hit-test session: two nodes joined by an edge lie at two points of a
\* grid, possibly the same point, and the events that end in delete_edge
\* arrive with the pointer at a point of the grid: a press of button 2 and
\* the Delete key.
HitPoints == { <<x, y>> : x \in {100, 200, 300}, y \in {100, 107, 114} }

HitGraph(a, b, directed) ==
    AddEdge(AddNodeAttr(AddNodeAttr(EmptyGraph, IntVal(1), a, None), IntVal(2), b, None),
            directed, IntVal(1), IntVal(2), NoWeight)

InitHit ==
    /\ node_id = 2
    /\ dragging = None
    /\ edge_start_node = None
    /\ button_clicked = FALSE
    /\ popup = NoPopup
    /\ running = TRUE
    /\ pc = "loop"
    /\ saves = 0
    /\ removed = {}
    /\ last = "init"
    /\ \E a \in HitPoints, b \in HitPoints, directed \in BOOLEAN :
          /\ G = HitGraph(a, b, directed)
          /\ is_directed = directed
          /\ inserted = InsertOrder(<<>>, directed, <<<<IntVal(1), IntVal(2)>>>>, 1)

HitPress ==
    /\ pc = "loop"
    /\ \E pos \in HitPoints :
          handle_event(Event("MOUSEBUTTONDOWN", 2, pos, "", ""), pos, FALSE, FALSE)
    /\ inserted' = Track

HitKey ==
    /\ pc = "loop"
    /\ \E mouse_pos \in HitPoints :
          handle_event(Event("KEYUP", 0, NoPos, "K_BACKSPACE", "BS"), mouse_pos, FALSE, FALSE)
    /\ inserted' = Track

NextHit == HitPress \/ HitKey

SpecHit == InitHit /\ [][NextHit]_vars

(***************************************************************************)
(* The claims.                                                             *)
(***************************************************************************)
\* the endpoints of the edges of the graph
Endpoints == { e[1] : e \in DOMAIN G.w } \cup { e[2] : e \in DOMAIN G.w }

\* C1: every edge has both endpoints among the present nodes, and no edge
\* references the id of a node that has been removed.
C1_EdgesAvoidRemovedNodes ==
    /\ Endpoints \subseteq Nodes(G)
    /\ Endpoints \cap removed = {}

\* C2: node ids come from the counter, which starts above zero, and once
\* the node with id k has been removed no node with id k is present again.
C2_RemovedIdsStayAbsent ==
    /\ \A n \in Nodes(G) : n.kind = "int" /\ 1 <= n.val /\ n.val <= node_id
    /\ Nodes(G) \cap removed = {}

\* a step of import_graph that fails
ImportFails == pc = "startup" /\ pc' = "startup" /\ last' = "import_failed"

\* C3: an import that fails for any reason leaves the directed flag, the
\* nodes with their positions and labels, and the edges with their weights
\* as they were before the call.
C3_FailedImportLeavesGraph ==
    [][ImportFails => (G' = G /\ is_directed' = is_directed)]_vars

\* Enter is released with the pointer in the open popup
EnterInPopup ==
    /\ pc = "loop"
    /\ popup # NoPopup
    /\ handle_event(Event("KEYUP", 0, NoPos, "K_RETURN", "CR"), NoPos, TRUE, FALSE)

\* the popup's buffer parses as a number after the comma is replaced and
\* the whitespace trimmed
BufferParses == ParseFloat(Strip(ReplaceComma(popup.text))).ok

\* C4: committing a weight popup whose buffer does not parse as a number
\* leaves the graph unchanged, clears the buffer and leaves the popup open.
C4_InvalidWeightKeepsPopup ==
    [][(EnterInPopup /\ popup.kind = "edge" /\ ~BufferParses)
          => (G' = G /\ popup' = [popup EXCEPT !.text = <<>>])]_vars

\* the number the popup's buffer parses as
BufferValue == ParseFloat(Strip(ReplaceComma(popup.text))).val

\* the adjacency entries that carry the weight of edge e
WeightKeys(e) == IF is_directed THEN {e} ELSE {e, <<e[2], e[1]>>}

\* the step sets the weight of edge e to v and changes nothing else of the graph
SetsWeight(e, v) ==
    /\ G'.node = G.node /\ G'.pos = G.pos /\ G'.label = G.label /\ G'.adj = G.adj
    /\ DOMAIN G'.w = DOMAIN G.w
    /\ \A k \in DOMAIN G.w : G'.w[k] = IF k \in WeightKeys(e) THEN v ELSE G.w[k]

ClaimedLabel(t) ==
    IF \A i \in 1..Len(t) : IsDigit(t[i]) THEN IntVal(DigitsVal(t)) ELSE StrVal(t)

\* C6: committing a label popup always closes it; an empty trimmed buffer
\* leaves the graph unchanged, an all-digit one stores the integer, any
\* other the trimmed string, as the label of the popup's node only.
C6_CommitSetsLabel ==
    [][(EnterInPopup /\ popup.kind = "node")
          => /\ popup' = NoPopup
             /\ G' = IF Strip(popup.text) = <<>> THEN G
                     ELSE [G EXCEPT !.label[popup.node] = ClaimedLabel(Strip(popup.text))]]_vars

\* an input event is handled
EventStep == MouseDown \/ MouseUp \/ MouseMotion \/ KeyUp \/ OtherEvent

\* the step changes at most the label of node n in the graph
OnlyLabelOf(n) ==
    /\ G'.node = G.node /\ G'.pos = G.pos /\ G'.adj = G.adj /\ G'.w = G.w
    /\ DOMAIN G'.label = DOMAIN G.label
    /\ \A x \in DOMAIN G.label : x # n => G'.label[x] = G.label[x]

\* C7: an event received while a popup is open adds or removes no node or
\* edge, moves no node, does not toggle directedness and leaves the dragged
\* node and the pending link as they are; the graph changes only by the
\* label or weight a commit writes to the popup's target, and an event that
\* closes the popup without a commit changes nothing else.
C7_PopupConsumesEvents ==
    [][(popup # NoPopup /\ EventStep)
          => /\ is_directed' = is_directed
             /\ node_id' = node_id
             /\ dragging' = dragging
             /\ edge_start_node' = edge_start_node
             /\ button_clicked' = button_clicked
             /\ G' # G => /\ popup' = NoPopup
                          /\ last' \in {"commit_label", "commit_weight"}
                          /\ IF popup.kind = "node"
                             THEN OnlyLabelOf(popup.node)
                             ELSE \E v \in {G'.w[popup.edge]} : SetsWeight(popup.edge, v)]_vars

\* C7: a commit has written a label while a node was being dragged and a
\* link was pending
C7_Witness ==
    /\ last = "commit_label"
    /\ popup = NoPopup
    /\ dragging # None
    /\ edge_start_node # None

\* a mouse button is pressed or released with the pointer outside the open popup
PressOrReleaseOutside ==
    /\ pc = "loop"
    /\ popup # NoPopup
    /\ \E type \in {"MOUSEBUTTONDOWN", "MOUSEBUTTONUP"}, button \in Buttons, on_input \in BOOLEAN :
          handle_event(Event(type, button, NoPos, "", ""), NoPos, FALSE, on_input)

LinkPressOn(b) ==
    /\ pc = "loop"
    /\ popup = NoPopup
    /\ \E pos \in Points :
          /\ ~OnSaveButton(pos) /\ ~OnToggleButton(pos)
          /\ NodeAt(G, pos) = [res |-> "hit", node |-> b]
          /\ handle_event(Event("MOUSEBUTTONDOWN", 3, pos, "", ""), pos, FALSE, FALSE)

\* the edges of the graph before and after the step
EdgesBefore == Range(Edges(G, is_directed))
EdgesAfter == Range(Edges(G', is_directed'))

\* save_graph writes edge e with the default weight after the step
LinkExportsDefault(e) ==
    LET es == save_graph(G', is_directed').edges
    IN  \E i \in 1..Len(es) : es[i] = [source |-> e[1], target |-> e[2], weight |-> DefaultWeight]

\* the step adds exactly one edge, between a and b, from a to b in a
\* directed graph, with the default weight, and changes no other edge
AddsOneEdge(a, b) ==
    /\ EdgesBefore \subseteq EdgesAfter
    /\ Cardinality(EdgesAfter \ EdgesBefore) = 1
    /\ EdgesAfter \ EdgesBefore \subseteq (IF is_directed THEN {<<a, b>>} ELSE {<<a, b>>, <<b, a>>})
    /\ \A e \in EdgesBefore : G'.w[e] = G.w[e]
    /\ \A e \in EdgesAfter \ EdgesBefore : LinkExportsDefault(e)
    /\ is_directed' = is_directed

\* C9, as claimed: with a link pending on a, button 3 on a different
\* present node b adds exactly one edge between a and b with the default
\* weight, changes no other edge and clears the pending link.
C9_LinkAddsOneEdge ==
    [][\A b \in Nodes(G) :
          (edge_start_node # None /\ edge_start_node # b /\ LinkPressOn(b))
             => (AddsOneEdge(edge_start_node, b) /\ edge_start_node' = None)]_vars

\* a and b are already joined by the edge a link from a to b would add
Joined(a, b) == HasEdge(G, a, b)

\* C9, amended: the same when a and b are not yet joined by that edge;
\* when they are, the graph with its weights is unchanged and the pending
\* link is cleared.
C9_LinkAddsMissingEdge ==
    [][\A b \in Nodes(G) :
          (edge_start_node # None /\ edge_start_node # b /\ LinkPressOn(b))
             => /\ edge_start_node' = None
                /\ IF Joined(edge_start_node, b)
                   THEN G' = G
                   ELSE AddsOneEdge(edge_start_node, b)]_vars

\* C9: a link gesture has added the edge from node 2 to node 1 of a directed graph
C9_Witness ==
    /\ last = "link_edge"
    /\ is_directed
    /\ edge_start_node = None
    /\ Range(Edges(G, is_directed)) = {<<IntVal(2), IntVal(1)>>}

\* C10: with no popup open, button 3 on node n with no link pending leaves
\* the graph unchanged and makes n the pending link; button 3 on n again
\* leaves the graph unchanged and clears the pending link, as it was before
\* the first press.
C10_SameNodeTwice ==
    [][\A n \in Nodes(G) :
          /\ (edge_start_node = None /\ LinkPressOn(n)) => (G' = G /\ edge_start_node' = n)
          /\ (edge_start_node = n /\ LinkPressOn(n)) => (G' = G /\ edge_start_node' = None)]_vars

\* C10: the second of two presses on the same node has been handled, in a
\* graph with an edge
C10_Witness ==
    /\ last = "link_same"
    /\ edge_start_node = None
    /\ DOMAIN G.w # {}

\* C11: in an editing session that starts from the empty graph, no edge
\* has equal endpoints.
C11_NoSelfEdge == \A e \in DOMAIN G.w : e[1] # e[2]

\* C11: button 3 has been pressed twice on the same node of a directed
\* graph that has an edge
C11_Witness ==
    /\ last = "link_same"
    /\ is_directed
    /\ Edges(G, is_directed) # <<>>

\* the graph a second toggle makes of the graph the step leaves
ToggledAgain == IF is_directed' THEN ToUndirected(G') ELSE ToDirected(G')

\* the exported weight of adjacency entry e of graph H
ExportedWeight(H, e) == IF H.w[e] = NoWeight THEN DefaultWeight ELSE H.w[e]

\* C12: after a toggle, a second toggle gives the edges the graph had
\* before the first: the same endpoint pairs with their orientation, and
\* the same weight for every edge that is not one of a reciprocal pair.
C12_ToggleTwiceRestoresEdges ==
    [][toggle_graph_type
          => /\ Range(Edges(ToggledAgain, is_directed)) = Range(Edges(G, is_directed))
             /\ \A e \in Range(Edges(G, is_directed)) :
                   \/ is_directed /\ HasEdge(G, e[2], e[1])
                   \/ /\ e \in DOMAIN ToggledAgain.w
                      /\ ExportedWeight(ToggledAgain, e) = ExportedWeight(G, e)]_vars

\* C13: a toggle of an undirected graph gives a directed graph with as
\* many edges as the undirected graph had, one for each of its edges.
C13_ToDirectedKeepsEdgeCount ==
    [][(toggle_graph_type /\ ~is_directed)
          => /\ Len(Edges(G', TRUE)) = Len(Edges(G, FALSE))
             /\ Len(save_graph(G', TRUE).edges) = Len(save_graph(G, FALSE).edges)
             /\ \A e \in Range(Edges(G, FALSE)) :
                   Cardinality({e, <<e[2], e[1]>>} \cap Range(Edges(G', TRUE))) = 1]_vars

\* entry e was added to the graph before entry f
InsertedBefore(e, f) == IndexOf(inserted, e) < IndexOf(inserted, f)

\* C14: a toggle of a directed graph gives an undirected graph with one
\* edge for every reciprocal pair, and its weight is the weight of the
\* direction that was inserted first.
C14_FirstInsertedWeightKept ==
    [][(toggle_graph_type /\ is_directed)
          => \A e \in DOMAIN G.w :
                (HasEdge(G, e[2], e[1]) /\ InsertedBefore(e, <<e[2], e[1]>>))
                   => /\ Cardinality({e, <<e[2], e[1]>>} \cap Range(Edges(G', FALSE))) = 1
                      /\ ExportedWeight(G', e) = ExportedWeight(G, e)]_vars

\* the edges of graph H with their exported weights; the endpoints of an
\* undirected edge are unordered
EdgeView(H, directed) ==
    { [ends |-> IF directed THEN <<e>> ELSE <<{e[1], e[2]}>>,
       weight |-> ExportedWeight(H, e)] : e \in Range(Edges(H, directed)) }

\* the saved document of the session is imported
Reimported == pc = "loop" /\ pc' = "startup"

\* C15: importing the exported document gives a graph with the directed
\* flag and the edges, endpoint pairs and weights, of the exported graph.
C15_ExportImportKeepsEdges ==
    [][Reimported
          => /\ is_directed' = is_directed
             /\ EdgeView(G', is_directed) = EdgeView(G, is_directed)]_vars

\* C15: a directed graph whose node 1 carried the label "a" and whose edge
\* from 1 to 2 carried the weight 2 has been exported and imported
C15_Witness ==
    /\ pc = "startup"
    /\ last = "import"
    /\ is_directed
    /\ G.node = <<StrVal(<<"a">>), IntVal(2), IntVal(1)>>
    /\ <<IntVal(1), IntVal(2)>> \in DOMAIN G.w
    /\ G.w[<<IntVal(1), IntVal(2)>>] = Float(2, 0)

\* a document with every required field
WellFormed(doc) ==
    /\ doc.file = "ok" /\ doc.has_vertices /\ doc.has_edges
    /\ \A i \in 1..Len(doc.vertices) : doc.vertices[i] # None
    /\ \A i \in 1..Len(doc.edges) : doc.edges[i].source # None /\ doc.edges[i].target # None

\* the nodes a well-formed document names
DocNodes(doc) ==
    Range(doc.vertices) \cup { doc.edges[i].source : i \in 1..Len(doc.edges) }
                        \cup { doc.edges[i].target : i \in 1..Len(doc.edges) }

\* the step is import_graph on document doc
ImportOf(doc, flip_x, flip_y) ==
    /\ pc = "startup" /\ pc' = "startup"
    /\ G' = import_graph(doc, flip_x, flip_y).graph
    /\ is_directed' = import_graph(doc, flip_x, flip_y).directed
    /\ last' = IF import_graph(doc, flip_x, flip_y).ok THEN "import" ELSE "import_failed"

\* position p is a node radius or more inside the viewport on each axis
InsideViewport(p) ==
    /\ node_size <= p[1] /\ p[1] <= width - node_size
    /\ node_size <= p[2] /\ p[2] <= height - node_size

\* C16: the import of a well-formed document with a single node, whose
\* layout has no extent, completes and leaves the node with a position a
\* node radius or more inside the viewport.
C16_DegenerateLayoutImports ==
    [][\A doc \in ImportDocs, flip_x \in BOOLEAN, flip_y \in BOOLEAN :
          (WellFormed(doc) /\ Cardinality(DocNodes(doc)) = 1 /\ ImportOf(doc, flip_x, flip_y))
             => /\ last' = "import"
                /\ \A n \in Nodes(G') : InsideViewport(G'.pos[n])]_vars

\* C17: when run() has ended, save_graph() has been called on a quit event
\* exactly once, however many quit events were delivered.
C17_SavedExactlyOnce == pc = "exited" => saves = 1

\* C18: once a quit event has been handled, no event changes what
\* save_graph writes: the document saved is that of the graph at the end of
\* the loop.
C18_NothingAppliedAfterQuit ==
    [][(pc = "loop" /\ ~running)
          => save_graph(G', is_directed') = save_graph(G, is_directed)]_vars

\* position p clamped into [0, width - node_size] x [0, height - node_size]
Clamped(p) ==
    LET clamp(x, hi) == IF x < 0 THEN 0 ELSE IF x > hi THEN hi ELSE x
    IN  <<clamp(p[1], width - node_size), clamp(p[2], height - node_size)>>

\* a motion event at pos is handled while a node is dragged
DragMotion(pos) ==
    /\ pc = "loop"
    /\ popup = NoPopup
    /\ dragging \in Nodes(G)
    /\ handle_event(Event("MOUSEMOTION", 0, pos, "", ""), pos, FALSE, FALSE)

\* every node's stored position is its own clamped position
AllClamped == \A n \in Nodes(G) : G.pos[n] = Clamped(G.pos[n])

\* C19: after a motion event while node n is dragged, the position of n
\* is the pointer position clamped into the viewport less a node radius,
\* and every stored position lies in that rectangle in every state.
C19_DragPositionClamped ==
    /\ []AllClamped
    /\ [][\A pos \in Points : DragMotion(pos) => G'.pos[dragging] = Clamped(pos)]_vars

\* the release of button 1 is delivered, with or without a popup open
PrimaryRelease ==
    /\ pc = "loop"
    /\ \E in_popup \in HitInputs :
          handle_event(Event("MOUSEBUTTONUP", 1, NoPos, "", ""), NoPos, in_popup, FALSE)

\* C20: once the release of button 1 has been delivered no node is being
\* dragged, also when a popup was opened while the button was held, so
\* that later motion moves no node.
C20_ReleaseEndsDrag ==
    [][PrimaryRelease => dragging' = None]_vars

\* the Delete key is released with the pointer at mouse_pos and no popup open
DeleteKeyAt(mouse_pos) ==
    /\ pc = "loop"
    /\ popup = NoPopup
    /\ handle_event(Event("KEYUP", 0, NoPos, "K_BACKSPACE", "BS"), mouse_pos, FALSE, FALSE)

\* C21: the Delete key with no popup open removes the node under the
\* pointer with its edges; if there is none, the first edge within the hit
\* threshold of the pointer, and that edge alone; if there is none either,
\* it leaves the graph unchanged and raises no error.
C21_DeleteKeyActsAtPointer ==
    [][\A mouse_pos \in Points :
          (DeleteKeyAt(mouse_pos) /\ \A n \in Nodes(G) : G.pos[n] # NoPos)
             => /\ pc' = "loop"
                /\ LET node == NodeAt(G, mouse_pos)
                       edge == EdgeAt(G, is_directed, mouse_pos)
                   IN  G' = IF node.res = "hit" THEN RemoveNode(G, node.node)
                             ELSE IF edge.res = "hit"
                             THEN RemoveEdge(G, is_directed, edge.edge[1], edge.edge[2])
                             ELSE G]_vars

\* key k is released with the pointer inside the open popup
KeyInPopup(k) ==
    /\ pc = "loop"
    /\ popup # NoPopup
    /\ handle_event(Event("KEYUP", 0, NoPos, k.key, k.unicode), NoPos, TRUE, FALSE)

\* the buffer text after key k: a backspace removes the last character,
\* another key appends its character
Typed(text, k) ==
    IF k.key = "K_BACKSPACE" THEN SubSeq(text, 1, Len(text) - 1) ELSE Append(text, k.unicode)

\* the keys that edit the buffer
TextKeys == { k \in PopupKeys : k.key # "K_RETURN" }

HitTestAt(q) == pc = "loop" /\ popup = NoPopup /\ delete_edge(q)

\* point q is at a distance below t from the line through a and b, from
\* the point a when a = b: with c the cross product of b - a and q - a,
\* the distance is |c| / |b - a|
NearInfiniteLine(q, a, b, t) ==
    LET c == (b[1] - a[1]) * (q[2] - a[2]) - (b[2] - a[2]) * (q[1] - a[1])
        len2 == (b[1] - a[1]) * (b[1] - a[1]) + (b[2] - a[2]) * (b[2] - a[2])
        d2 == (q[1] - a[1]) * (q[1] - a[1]) + (q[2] - a[2]) * (q[2] - a[2])
    IN  IF a = b THEN d2 < t * t ELSE c * c < t * t * len2

\* q lies on the line through a and b
Collinear(q, a, b) ==
    (b[1] - a[1]) * (q[2] - a[2]) = (b[2] - a[2]) * (q[1] - a[1])

\* C23: the hit test applied to a point and an edge finds the edge iff the
\* point is at a distance below edge_width + 5 from the line through the
\* endpoint positions (from the point when they coincide); a point on the
\* line, on the segment or beyond an endpoint, is near.
C23_HitTestUsesInfiniteLine ==
    [][\A q \in HitPoints : \A e \in Range(Edges(G, is_directed)) :
          HitTestAt(q)
             => /\ (G' = RemoveEdge(G, is_directed, e[1], e[2]))
                      <=> NearInfiniteLine(q, G.pos[e[1]], G.pos[e[2]], edge_width + 5)
                /\ (G.pos[e[1]] # G.pos[e[2]] /\ Collinear(q, G.pos[e[1]], G.pos[e[2]]))
                      => G' = RemoveEdge(G, is_directed, e[1], e[2])]_vars

\* C23: the edge from (100, 100) to (200, 107) has been removed by a hit
\* test, whose point was on its line or less than 7 from it
C23_Witness ==
    /\ last = "delete_edge"
    /\ Edges(G, is_directed) = <<>>
    /\ Len(G.node) = 2
    /\ G.pos[IntVal(1)] = <<100, 100>>
    /\ G.pos[IntVal(2)] = <<200, 107>>

\* C24: a pending link start is a node of the graph: removing a node also
\* clears a pending link that starts at it.
C24_PendingLinkIsPresent == edge_start_node # None => edge_start_node \in Nodes(G)

\* C25: every node of the graph has a position.
C25_EveryNodeHasPosition == \A n \in Nodes(G) : G.pos[n] # NoPos

\* the controller states that hold
ControllerStates ==
    (IF dragging # None THEN {"Dragging"} ELSE {})
       \cup (IF edge_start_node # None THEN {"LinkPending"} ELSE {})
       \cup (IF popup # NoPopup THEN {"PopupOpen"} ELSE {})

\* C26: at most one of dragging a node, a pending link and an open popup
\* holds.
C26_StatesExclusive == Cardinality(ControllerStates) <= 1

\* C27: in the document save_graph writes, the source and the target of
\* every edge entry are ids of the vertex list, and the vertex list has as
\* many distinct ids as the graph has nodes.
C27_ExportSelfConsistent ==
    LET data == save_graph(G, is_directed)
    IN  /\ \A i \in 1..Len(data.edges) :
              /\ data.edges[i].source \in Range(data.vertices)
              /\ data.edges[i].target \in Range(data.vertices)
        /\ Cardinality(Range(data.vertices)) = Len(G.node)

\* button 1 is pressed at pos, on no node and no button, with no popup open
PrimaryPressOnCanvas(pos) ==
    /\ pc = "loop"
    /\ popup = NoPopup
    /\ ~OnSaveButton(pos) /\ ~OnToggleButton(pos)
    /\ NodeAt(G, pos).res = "miss"
    /\ handle_event(Event("MOUSEBUTTONDOWN", 1, pos, "", ""), pos, FALSE, FALSE)

\* C28: a press of button 1 on empty canvas adds one node, whose id no
\* present node has, and changes no position, label or edge of a present
\* node, also after a graph has been imported.
C28_NewNodeHasFreshId ==
    [][\A pos \in Points :
          PrimaryPressOnCanvas(pos)
             => /\ Len(G'.node) = Len(G.node) + 1
                /\ SubSeq(G'.node, 1, Len(G.node)) = G.node
                /\ \A n \in Nodes(G) :
                      /\ G'.pos[n] = G.pos[n]
                      /\ G'.label[n] = G.label[n]
                      /\ G'.adj[n] = G.adj[n]
                /\ G'.w = G.w]_vars

====
